---- MODULE Spec2Model ----
(***************************************************************************)
(* A model of the measurement pipeline of src/main_window.py:             *)
(*   - MarkerLocator's suppression (MainWindow.apply_nms_manual),          *)
(*   - CenterExtractor's deduplication (ce_task),                          *)
(*   - PointOrdering (sort_grid_points),                                   *)
(*   - CorrespondenceTracker (plot_task),                                  *)
(*   - the orchestration of the stage tasks by MainWindow's slots.         *)
(* Each component has its own variable, initial condition, actions and     *)
(* specification; a component that a specification does not exercise      *)
(* stays in its idle value.                                                *)
(***************************************************************************)
EXTENDS Integers, Sequences, FiniteSets, TLC

(***************************************************************************)
(* Bounds of the model.                                                    *)
(***************************************************************************)
\* width and height of the score surface (cv2.matchTemplate's result)
ResW == 3
ResH == 2
\* at most this many positions of the score surface carry a positive score
MaxHits == 3
\* the clipped template is at most MaxTemplate x MaxTemplate pixels
MaxTemplate == 3

\* score levels of the surface (a discretisation of [-1, 1]); level 0 is
\* below every threshold the spin box allows (its range starts at 0.1)
ScoreLevels == {0, 1, 2}
Thresholds == ScoreLevels \ {0}

\* candidate centroids lie on the pixels (0..CeMaxX) x (0..CeMaxY), and a
\* run of ce_task aggregates at most MaxCentroids of them
CeMaxX == 6
CeMaxY == 1
MaxCentroids == 3

\* PointOrdering is applied to lists of at most MaxPoints points of
\* (0..OrdMaxX) x (0..OrdMaxY), with a row tolerance of 1..MaxTolerance
OrdMaxX == 1
OrdMaxY == 2
MaxPoints == 3
MaxTolerance == 2

\* plot_task tracks at most MaxPeriods periods of at most MaxTrackPoints
\* points each
MaxPeriods == 3
MaxTrackPoints == 2

\* the MainWindow starts at most MaxWorkers workers, and a stage finds at most
\* MaxFound markers or centers
MaxWorkers == 4
MaxFound == 1

\* a run of ct_task transforms at most MaxCenters centers
MaxCenters == 2

\* the short runs of the window start at most MaxShortWorkers workers
MaxShortWorkers == 3

\* the runs of the fair specification start at most MaxLiveWorkers workers
MaxLiveWorkers == 2

\* line 690: a template side under 5 is refused
min_template_side == 5

\* the image of a run of tm_task is ImgW by ImgH pixels
ImgW == 6
ImgH == 6

VARIABLES
    nms,    \* one run of tm_task's suppression: its inputs, result, position
    ce,     \* one run of ce_task's deduplication
    ord,    \* sort_grid_points applied to a list, and again to its output
    trk,    \* one run of plot_task's tracking
    ui,     \* the MainWindow: selection, result store, workers, buttons
    ct,     \* one run of ct_task and the slot that takes its result
    tm,     \* one run of tm_task's cropping and the slot that takes its result
    wk      \* one run of Worker.run: the signals it has emitted

vars == <<nms, ce, ord, trk, ui, ct, tm, wk>>

(***************************************************************************)
(* Helpers.                                                                *)
(***************************************************************************)
Abs(n) == IF n < 0 THEN -n ELSE n

Min(a, b) == IF a < b THEN a ELSE b

(***************************************************************************)
(* MarkerLocator: apply_nms_manual.                                        *)
(***************************************************************************)
\* np.where(res >= threshold) lists the positions row by row (y, then x);
\* points_scores zips them to (x, y, score).
RECURSIVE ScanFrom(_, _, _)
ScanFrom(k, r, threshold) ==
    IF k >= ResW * ResH THEN <<>>
    ELSE LET x == k % ResW
             y == k \div ResW
         IN  (IF r[<<x, y>>] >= threshold
                 THEN <<[x |-> x, y |-> y, score |-> r[<<x, y>>]]>>
                 ELSE <<>>)
             \o ScanFrom(k + 1, r, threshold)

PointsScores(r, threshold) == ScanFrom(0, r, threshold)

\* list.sort(key=score, reverse=True): a stable sort, equal scores keep
\* their order of discovery.  Insert p behind every element whose score is
\* >= its own.
\* a sort that is not stable: p goes in front of the elements of its own score
RECURSIVE InsertBeforeTies(_, _)
InsertBeforeTies(p, s) ==
    IF s = <<>> THEN <<p>>
    ELSE IF Head(s).score > p.score
         THEN <<Head(s)>> \o InsertBeforeTies(p, Tail(s))
         ELSE <<p>> \o s

RECURSIVE InsertByScore(_, _)
InsertByScore(p, s) ==
    IF s = <<>> THEN <<p>>
    ELSE IF Head(s).score >= p.score
         THEN <<Head(s)>> \o InsertByScore(p, Tail(s))
         ELSE <<p>> \o s

RECURSIVE SortByScoreDesc(_)
SortByScoreDesc(s) ==
    IF s = <<>> THEN <<>>
    ELSE InsertByScore(s[Len(s)], SortByScoreDesc(SubSeq(s, 1, Len(s) - 1)))

\* the test of line 797 with >= for >: a candidate exactly nms_distance away
\* would survive
SurvivesAtDistance(p, best, nms_distance) ==
    \/ Abs(p.x - best.x) >= nms_distance
    \/ Abs(p.y - best.y) >= nms_distance

\* the test of line 797 with "and" for "or": a candidate near the best one in
\* one axis only would be removed
SurvivesInBothAxes(p, best, nms_distance) ==
    /\ Abs(p.x - best.x) > nms_distance
    /\ Abs(p.y - best.y) > nms_distance

\* line 797: a remaining candidate survives the best one iff it is farther
\* than nms_distance from it in x or in y
Survives(p, best, nms_distance) ==
    \/ Abs(p.x - best.x) > nms_distance
    \/ Abs(p.y - best.y) > nms_distance

\* the while loop of lines 791-799
RECURSIVE NmsLoop(_, _)
NmsLoop(points_scores, nms_distance) ==
    IF points_scores = <<>> THEN <<>>
    ELSE LET best == Head(points_scores)
             remaining_points ==
                 SelectSeq(Tail(points_scores),
                           LAMBDA p : Survives(p, best, nms_distance))
         IN  <<[x |-> best.x, y |-> best.y]>>
             \o NmsLoop(remaining_points, nms_distance)

apply_nms_manual(r, threshold, nms_distance) ==
    NmsLoop(SortByScoreDesc(PointsScores(r, threshold)), nms_distance)

\* tm_task, line 841
NmsDistance(w, h) == Min(w, h) \div 2

Positions == (0 .. ResW - 1) \X (0 .. ResH - 1)

\* the score surfaces with at most MaxHits positive entries
Surfaces ==
    {r \in [Positions -> ScoreLevels] :
        Cardinality({p \in Positions : r[p] > 0}) <= MaxHits}

NmsIdle == [pc |-> "idle"]

CeIdle == [pc |-> "idle"]

OrdIdle == [pc |-> "idle"]

TrkIdle == [pc |-> "idle"]

UiIdle == [pc |-> "idle"]

CtIdle == [pc |-> "idle"]

TmIdle == [pc |-> "idle"]

WkIdle == [pc |-> "idle"]

InitNms ==
    /\ ct = CtIdle
    /\ tm = TmIdle
    /\ wk = WkIdle
    /\ ce = CeIdle
    /\ ord = OrdIdle
    /\ trk = TrkIdle
    /\ ui = UiIdle
    /\ \E r \in Surfaces, th \in Thresholds,
          w \in 1 .. MaxTemplate, h \in 1 .. MaxTemplate :
              nms = [pc |-> "matched", res |-> r, tm_threshold |-> th,
                  w |-> w, h |-> h]

\* tm_task, lines 841-843: suppression of the score surface
TmSuppress ==
    /\ nms.pc = "matched"
    /\ UNCHANGED <<ce, ord, trk, ui, ct, tm, wk>>
    /\ nms' = [pc |-> "done", res |-> nms.res,
               tm_threshold |-> nms.tm_threshold, w |-> nms.w, h |-> nms.h,
               nms_distance |-> NmsDistance(nms.w, nms.h),
               points_scores |-> SortByScoreDesc(PointsScores(nms.res,
                                                              nms.tm_threshold)),
               final_points |-> apply_nms_manual(nms.res, nms.tm_threshold,
                                                 NmsDistance(nms.w, nms.h))]

NextNms == TmSuppress

SpecNms == InitNms /\ [][NextNms]_vars

(***************************************************************************)
(* C1: any two distinct Markers returned by the suppression are farther    *)
(* apart than nms_distance in x or in y: max(|dx|, |dy|) > nms_distance,   *)
(* with nms_distance = floor(min(template_w, template_h) / 2).             *)
(***************************************************************************)
KeptMarkersApart ==
    nms.pc = "done" =>
        /\ nms.nms_distance = Min(nms.w, nms.h) \div 2
        /\ \A i, j \in DOMAIN nms.final_points :
               i # j =>
                   LET a == nms.final_points[i]
                       b == nms.final_points[j]
                       dx == Abs(a.x - b.x)
                       dy == Abs(a.y - b.y)
                   IN  (IF dx > dy THEN dx ELSE dy) > nms.nms_distance

\* a run that kept two Markers although a candidate between them was
\* suppressed
KeptMarkersApartWitness ==
    /\ nms.pc = "done"
    /\ Len(nms.final_points) >= 2
    /\ nms.nms_distance >= 1
    /\ Len(PointsScores(nms.res, nms.tm_threshold)) > Len(nms.final_points)

(***************************************************************************)
(* CenterExtractor: the deduplication of ce_task.                          *)
(***************************************************************************)
\* line 1020; the centroids are integer pixels
min_dist_threshold == 5

\* the squared Euclidean distance of two points
Dist2(a, b) == (a.x - b.x) * (a.x - b.x) + (a.y - b.y) * (a.y - b.y)

\* the test of line 1029 with <= for <: a pair exactly 5.0 apart would count
\* as one point
CloseOrAtThreshold(a, b) ==
    Dist2(a, b) <= min_dist_threshold * min_dist_threshold

\* lines 1028-1029: cdist(...) < min_dist_threshold, on integer pixels
Close(a, b) == Dist2(a, b) < min_dist_threshold * min_dist_threshold

\* lines 1023-1031: the scan over i, to_keep being the marks so far
RECURSIVE DedupScan(_, _, _)
DedupScan(i, centroids_array, to_keep) ==
    IF i > Len(centroids_array) THEN to_keep
    ELSE IF to_keep[i]
         THEN DedupScan(i + 1, centroids_array,
                  [j \in DOMAIN centroids_array |->
                      IF j > i /\ to_keep[j]
                              /\ Close(centroids_array[i], centroids_array[j])
                          THEN FALSE
                          ELSE to_keep[j]])
         ELSE DedupScan(i + 1, centroids_array, to_keep)

\* lines 1021-1031: np.ones, then the scan when there is more than one point
ToKeep(centroids_array) ==
    LET ones == [j \in DOMAIN centroids_array |-> TRUE]
    IN  IF Len(centroids_array) > 1
            THEN DedupScan(1, centroids_array, ones)
            ELSE ones

\* line 1032: centroids_array[to_keep]
RECURSIVE Masked(_, _, _)
Masked(i, centroids_array, to_keep) ==
    IF i > Len(centroids_array) THEN <<>>
    ELSE (IF to_keep[i] THEN <<centroids_array[i]>> ELSE <<>>)
         \o Masked(i + 1, centroids_array, to_keep)

Pixels == [x : 0 .. CeMaxX, y : 0 .. CeMaxY]

CentroidLists == UNION {[1 .. n -> Pixels] : n \in 0 .. MaxCentroids}

InitCe ==
    /\ ct = CtIdle
    /\ tm = TmIdle
    /\ wk = WkIdle
    /\ nms = NmsIdle
    /\ ord = OrdIdle
    /\ trk = TrkIdle
    /\ ui = UiIdle
    /\ \E c \in CentroidLists :
           ce = [pc |-> "aggregated", all_centroids_full_coords |-> c]

\* ce_task, lines 1017-1034
CeDeduplicate ==
    /\ ce.pc = "aggregated"
    /\ UNCHANGED <<nms, ord, trk, ui, ct, tm, wk>>
    /\ LET c == ce.all_centroids_full_coords
           k == ToKeep(c)
       IN  ce' = [pc |-> "done", all_centroids_full_coords |-> c,
                  to_keep |-> k,
                  unique_centroids_array |-> Masked(1, c, k)]

NextCe == CeDeduplicate

SpecCe == InitCe /\ [][NextCe]_vars

(***************************************************************************)
(* C9: after the deduplication no two surviving centers are closer than    *)
(* 5.0 units, the first candidate survives, and a candidate is removed     *)
(* only if an earlier candidate that itself survives lies within the       *)
(* radius of it.                                                           *)
(***************************************************************************)
DedupFirstSeenWins ==
    ce.pc = "done" =>
        LET c == ce.all_centroids_full_coords
            k == ce.to_keep
            u == ce.unique_centroids_array
        IN  /\ \A i, j \in DOMAIN u :
                   i # j => Dist2(u[i], u[j])
                                >= min_dist_threshold * min_dist_threshold
            /\ Len(c) > 0 => (k[1] /\ Len(u) > 0 /\ u[1] = c[1])
            /\ \A j \in DOMAIN c :
                   ~k[j] => \E i \in 1 .. j - 1 :
                                /\ k[i]
                                /\ Dist2(c[i], c[j])
                                     < min_dist_threshold * min_dist_threshold
            /\ u = Masked(1, c, k)

\* the second candidate is removed by the first, and the third, which is
\* within the radius of the removed one only, survives
DedupFirstSeenWinsWitness ==
    /\ ce.pc = "done"
    /\ Len(ce.all_centroids_full_coords) = 3
    /\ ce.to_keep = <<TRUE, FALSE, TRUE>>
    /\ Close(ce.all_centroids_full_coords[2], ce.all_centroids_full_coords[3])

(***************************************************************************)
(* PointOrdering: sort_grid_points.                                        *)
(***************************************************************************)
\* the permutations of 1..n, as sequences
Perms(n) == {p \in [1 .. n -> 1 .. n] : \A i, j \in 1 .. n : i # j => p[i] # p[j]}

\* np.argsort(keys) of lines 291 and 318, with the default kind
\* ('quicksort', which numpy documents as not stable): an index order in
\* which the keys do not decrease; the order of equal keys is not specified
Argsort(keys) ==
    {p \in Perms(Len(keys)) :
        \A i, j \in 1 .. Len(keys) : i < j => keys[p[i]] <= keys[p[j]]}

Xs(pts) == [i \in DOMAIN pts |-> pts[i].x]

Ys(pts) == [i \in DOMAIN pts |-> pts[i].y]

\* lines 299-307: the loop over the y-sorted points; last_y is set when a
\* cluster starts and only then
RECURSIVE ClusterLoop(_, _, _, _, _, _, _)
ClusterLoop(i, sorted_y_indices, pts, row_tolerance, row_clusters_indices, current_cluster, last_y) ==
    IF i > Len(sorted_y_indices)
        THEN Append(row_clusters_indices, current_cluster)
        ELSE LET current_y == pts[sorted_y_indices[i]].y
             IN  IF Abs(current_y - last_y) < row_tolerance
                     THEN ClusterLoop(i + 1, sorted_y_indices, pts,
                              row_tolerance, row_clusters_indices,
                              Append(current_cluster, sorted_y_indices[i]),
                              last_y)
                     ELSE ClusterLoop(i + 1, sorted_y_indices, pts,
                              row_tolerance,
                              Append(row_clusters_indices, current_cluster),
                              <<sorted_y_indices[i]>>, current_y)

\* the loop without the append of line 307: the last cluster is lost
RowClustersWithoutLast(sorted_y_indices, pts, row_tolerance) ==
    LET clusters == ClusterLoop(2, sorted_y_indices, pts, row_tolerance, <<>>,
                                <<sorted_y_indices[1]>>, pts[sorted_y_indices[1]].y)
    IN  SubSeq(clusters, 1, Len(clusters) - 1)

\* lines 294-307
RowClusters(sorted_y_indices, pts, row_tolerance) ==
    ClusterLoop(2, sorted_y_indices, pts, row_tolerance, <<>>,
                <<sorted_y_indices[1]>>, pts[sorted_y_indices[1]].y)

RECURSIVE SumY(_, _)
SumY(indices, pts) ==
    IF indices = <<>> THEN 0
    ELSE pts[Head(indices)].y + SumY(Tail(indices), pts)

\* np.mean(points[a, 1]) < np.mean(points[b, 1]), without the division
MeanYLess(a, b, pts) == SumY(a, pts) * Len(b) < SumY(b, pts) * Len(a)

\* line 311: list.sort(key=mean y), a stable sort
RECURSIVE InsertByMeanY(_, _, _)
InsertByMeanY(c, s, pts) ==
    IF s = <<>> THEN <<c>>
    ELSE IF MeanYLess(c, Head(s), pts)
         THEN <<c>> \o s
         ELSE <<Head(s)>> \o InsertByMeanY(c, Tail(s), pts)

RECURSIVE SortByMeanY(_, _)
SortByMeanY(clusters, pts) ==
    IF clusters = <<>> THEN <<>>
    ELSE InsertByMeanY(clusters[Len(clusters)],
                       SortByMeanY(SubSeq(clusters, 1, Len(clusters) - 1), pts),
                       pts)

\* the calls of np.argsort a run makes are pairs <<keys, result>>; np.argsort
\* is a function, so that two calls on equal keys return the same order
Functional(calls) == \A c, d \in calls : c[1] = d[1] => c[2] = d[2]

\* lines 314-320: each row is emitted in an x order np.argsort can give;
\* a result is the emitted sequence with the calls made
RECURSIVE EmitRows(_, _)
EmitRows(clusters, pts) ==
    IF clusters = <<>> THEN {[out |-> <<>>, calls |-> {}]}
    ELSE LET row_indices == Head(clusters)
             row_points_subset == [k \in DOMAIN row_indices |-> pts[row_indices[k]]]
         IN  {[out |-> [k \in DOMAIN row_indices |-> row_points_subset[sx[k]]]
                         \o rest.out,
               calls |-> {<<Xs(row_points_subset), sx>>} \cup rest.calls] :
                  sx \in Argsort(Xs(row_points_subset)),
                  rest \in EmitRows(Tail(clusters), pts)}

\* sort_grid_points(points, row_tolerance): the sequences it can return, each
\* with the calls of np.argsort that give it
sort_grid_points(pts, row_tolerance) ==
    IF Len(pts) = 0
        THEN {[out |-> pts, calls |-> {}, sorted_y_indices |-> <<>>,
               row_clusters_indices |-> <<>>]}
    ELSE {r \in UNION {
                 {[out |-> e.out, calls |-> {<<Ys(pts), sy>>} \cup e.calls,
                   sorted_y_indices |-> sy,
                   row_clusters_indices |-> RowClusters(sy, pts, row_tolerance)] :
                     e \in EmitRows(SortByMeanY(
                               RowClusters(sy, pts, row_tolerance), pts), pts)} :
                 sy \in Argsort(Ys(pts))} :
             Functional(r.calls)}

GridPoints == [x : 0 .. OrdMaxX, y : 0 .. OrdMaxY]

PointLists == UNION {[1 .. n -> GridPoints] : n \in 0 .. MaxPoints}

InitOrd ==
    /\ ct = CtIdle
    /\ tm = TmIdle
    /\ wk = WkIdle
    /\ nms = NmsIdle
    /\ ce = CeIdle
    /\ trk = TrkIdle
    /\ ui = UiIdle
    /\ \E pts \in PointLists, r \in 1 .. MaxTolerance :
           ord = [pc |-> "input", points |-> pts, row_tolerance |-> r]

\* sort_grid_points applied to the input
SortOnce ==
    /\ ord.pc = "input"
    /\ UNCHANGED <<nms, ce, trk, ui, ct, tm, wk>>
    /\ \E r \in sort_grid_points(ord.points, ord.row_tolerance) :
           ord' = [pc |-> "once", points |-> ord.points,
                   row_tolerance |-> ord.row_tolerance, once |-> r.out,
                   argsort |-> r.calls,
                   sorted_y_indices |-> r.sorted_y_indices,
                   row_clusters_indices |-> r.row_clusters_indices]

\* sort_grid_points applied to its own output, by the same np.argsort
SortTwice ==
    /\ ord.pc = "once"
    /\ UNCHANGED <<nms, ce, trk, ui, ct, tm, wk>>
    /\ \E r \in sort_grid_points(ord.once, ord.row_tolerance) :
           /\ Functional(ord.argsort \cup r.calls)
           /\ ord' = [ord EXCEPT !.pc = "twice", !.argsort = @ \cup r.calls]
                          @@ [twice |-> r.out]

NextOrd == SortOnce \/ SortTwice

SpecOrd == InitOrd /\ [][NextOrd]_vars

(***************************************************************************)
(* C10: PointOrdering is idempotent: applied to its own output it returns  *)
(* the same sequence as applied once.                                      *)
(***************************************************************************)
OrderingIdempotent == ord.pc = "twice" => ord.twice = ord.once

\* the outputs a state holds
Sorted == IF ord.pc = "once" THEN {ord.once}
          ELSE IF ord.pc = "twice" THEN {ord.once, ord.twice}
          ELSE {}

\* the last index of the run that starts at i: the consecutive points whose
\* y is within the tolerance of the y of point i
RECURSIVE RunEnd(_, _, _, _)
RunEnd(out, i, j, row_tolerance) ==
    IF j < Len(out) /\ Abs(out[j + 1].y - out[i].y) < row_tolerance
        THEN RunEnd(out, i, j + 1, row_tolerance)
        ELSE j

\* x does not decrease inside the maximal runs, taken from point i on
RECURSIVE RunsNonDecreasing(_, _, _)
RunsNonDecreasing(out, i, row_tolerance) ==
    IF i > Len(out) THEN TRUE
    ELSE LET j == RunEnd(out, i, i, row_tolerance)
         IN  /\ \A k \in i .. j - 1 : out[k].x <= out[k + 1].x
             /\ RunsNonDecreasing(out, j + 1, row_tolerance)

\* C11: in a produced sequence, x is non-decreasing inside every maximal
\* run of consecutive points whose y is within the row tolerance of the y
\* of the run's first point.
XNonDecreasingInRuns ==
    \A out \in Sorted : RunsNonDecreasing(out, 1, ord.row_tolerance)

\* the cluster that holds index k of the input
ClusterOf(k) ==
    CHOOSE c \in DOMAIN ord.row_clusters_indices :
        \E m \in DOMAIN ord.row_clusters_indices[c] :
            ord.row_clusters_indices[c][m] = k

\* C12: over the y-sorted points, a point is in the cluster of the point
\* before it iff its y is less than the row tolerance above that point's y,
\* and else starts a new cluster; the clusters follow each other in y order,
\* and the output is the clusters one after the other.
ClustersByGapToPrevious ==
    ord.pc \in {"once", "twice"} =>
        LET sy == ord.sorted_y_indices
            pts == ord.points
        IN  /\ \A i \in 2 .. Len(sy) :
                   (ClusterOf(sy[i]) = ClusterOf(sy[i - 1]))
                       <=> (Abs(pts[sy[i]].y - pts[sy[i - 1]].y) < ord.row_tolerance)
            /\ \A i \in 2 .. Len(sy) :
                   ClusterOf(sy[i]) \in {ClusterOf(sy[i - 1]), ClusterOf(sy[i - 1]) + 1}
            /\ Len(ord.once) = Len(pts)

(***************************************************************************)
(* CorrespondenceTracker: the tracking of plot_task.                       *)
(* Real coordinates are counted in steps of 0.5, so that                   *)
(* MAX_MATCHING_DISTANCE = 0.5 is one step.  A dict is a sequence of       *)
(* [uid, coord] entries in insertion order, as Python keeps it.            *)
(***************************************************************************)
\* line 1777, in steps of 0.5
MAX_MATCHING_DISTANCE == 1

\* np.nan in both coordinates of a row
NaN == [nan |-> TRUE]

\* the real coordinates a period's points take
TrackGrid ==
    {[x |-> 0, y |-> 0], [x |-> 0, y |-> 1], [x |-> 0, y |-> 2],
     [x |-> 1, y |-> 1]}

\* a period of periods_data: lines 1753-1756 keep the non-empty coordinate
\* arrays only; the points of one image are distinct
PeriodLists ==
    {c \in UNION {[1 .. n -> TrackGrid] : n \in 1 .. MaxTrackPoints} :
        \A i, j \in DOMAIN c : i # j => c[i] # c[j]}

Keys(dict) == {dict[i].uid : i \in DOMAIN dict}

Lookup(dict, uid) == (CHOOSE i \in DOMAIN dict : dict[i].uid = uid)

\* the test of line 1794 with twice the distance
WithinTwiceMaxDistance(a, b) ==
    Dist2(a, b) <= 4 * MAX_MATCHING_DISTANCE * MAX_MATCHING_DISTANCE

\* line 1794: dist <= MAX_MATCHING_DISTANCE, cdist being the Euclidean
\* distance
WithinMaxDistance(a, b) ==
    Dist2(a, b) <= MAX_MATCHING_DISTANCE * MAX_MATCHING_DISTANCE

\* lines 1789-1795: the (dist, uid, cur_idx) tuples; dist is compared by its
\* square
PotentialMatchSet(reference_points, current_coords) ==
    {[dist2 |-> Dist2(reference_points[r].coord, current_coords[c]),
      uid |-> reference_points[r].uid, cur_idx |-> c] :
        <<r, c>> \in {rc \in (DOMAIN reference_points) \X (DOMAIN current_coords) :
                         WithinMaxDistance(reference_points[rc[1]].coord,
                                           current_coords[rc[2]])}}

\* a sort that looks at the id before the distance
TupleLessByIdFirst(m, n) ==
    \/ m.uid < n.uid
    \/ m.uid = n.uid /\ m.dist2 < n.dist2
    \/ m.uid = n.uid /\ m.dist2 = n.dist2 /\ m.cur_idx < n.cur_idx

\* an order that looks at the distance only
TupleLessByDistance(m, n) == m.dist2 < n.dist2

\* the order of Python's tuples
TupleLess(m, n) ==
    \/ m.dist2 < n.dist2
    \/ m.dist2 = n.dist2 /\ m.uid < n.uid
    \/ m.dist2 = n.dist2 /\ m.uid = n.uid /\ m.cur_idx < n.cur_idx

\* line 1797: potential_matches.sort()
RECURSIVE SortedMatches(_)
SortedMatches(set) ==
    IF set = {} THEN <<>>
    ELSE LET least == CHOOSE m \in set : \A n \in set : ~TupleLess(n, m)
         IN  <<least>> \o SortedMatches(set \ {least})

\* line 1797 by the contract of a sort alone: every arrangement of the tuples
\* in which no tuple comes after a tuple that is greater
RECURSIVE SortOrders(_)
SortOrders(set) ==
    IF set = {} THEN {<<>>}
    ELSE UNION {{<<m>> \o s : s \in SortOrders(set \ {m})} :
                   m \in {m \in set : \A n \in set : ~TupleLess(n, m)}}

\* lines 1804-1810: the greedy pass; the result lists the committed tuples
\* in the order they are committed
RECURSIVE GreedyCommit(_, _, _)
GreedyCommit(potential_matches, matched_ref_ids, matched_cur_indices) ==
    IF potential_matches = <<>> THEN <<>>
    ELSE LET m == Head(potential_matches)
         IN  IF m.uid \notin matched_ref_ids /\ m.cur_idx \notin matched_cur_indices
                 THEN <<m>> \o GreedyCommit(Tail(potential_matches),
                                            matched_ref_ids \cup {m.uid},
                                            matched_cur_indices \cup {m.cur_idx})
                 ELSE GreedyCommit(Tail(potential_matches),
                                   matched_ref_ids, matched_cur_indices)

\* rows that also give every unmatched candidate an id of its own
PeriodRowsWithNewIds(reference_points, committed, current_coords, time_step) ==
    LET unmatched == {c \in DOMAIN current_coords :
                         \A k \in DOMAIN committed : committed[k].cur_idx # c}
    IN  [r \in 1 .. Cardinality(unmatched) |->
            [unique_id |-> 10 * time_step + r, time_step |-> time_step,
             coord |-> current_coords[CHOOSE c \in unmatched : TRUE]]]

\* lines 1814-1821: one row per reference id, in the order of ref_ids
PeriodRows(reference_points, committed, current_coords, time_step) ==
    [r \in DOMAIN reference_points |->
        LET uid == reference_points[r].uid
        IN  IF \E k \in DOMAIN committed : committed[k].uid = uid
                THEN [unique_id |-> uid, time_step |-> time_step,
                      coord |-> current_coords[
                          committed[CHOOSE k \in DOMAIN committed :
                                        committed[k].uid = uid].cur_idx]]
                ELSE [unique_id |-> uid, time_step |-> time_step, coord |-> NaN]]

\* lines 1808 and 1822: new_reference_points holds the matched ids with
\* their new coordinates, and nothing else
NewReferencePoints(committed, current_coords) ==
    [k \in DOMAIN committed |->
        [uid |-> committed[k].uid, coord |-> current_coords[committed[k].cur_idx]]]

\* line 1822 gone wrong: the reference stays the one of period 1
PinnedReferencePoints(reference_points, committed, current_coords) ==
    reference_points

\* line 1822: reference_points = new_reference_points
NextReferencePoints(reference_points, committed, current_coords) ==
    NewReferencePoints(committed, current_coords)

InitTrk ==
    /\ ct = CtIdle
    /\ tm = TmIdle
    /\ wk = WkIdle
    /\ nms = NmsIdle
    /\ ce = CeIdle
    /\ ord = OrdIdle
    /\ ui = UiIdle
    /\ \E n \in 0 .. MaxPeriods :
           trk = [pc |-> "collected", num_time_steps |-> n]

\* line 1919: no period has coordinates
TrackNothing ==
    /\ trk.pc = "collected"
    /\ trk.num_time_steps = 0
    /\ UNCHANGED <<nms, ce, ord, ui, ct, tm, wk>>
    /\ trk' = [pc |-> "done", num_time_steps |-> 0, t |-> 0,
               tracked_data |-> <<>>, initial_coords |-> <<>>,
               reference_points |-> <<>>, last |-> [time_step |-> 0],
               df |-> <<>>, error |-> FALSE]

\* lines 1764-1776: period 1 gives the ids
TrackFirstPeriod ==
    /\ trk.pc = "collected"
    /\ trk.num_time_steps >= 1
    /\ UNCHANGED <<nms, ce, ord, ui, ct, tm, wk>>
    /\ \E first_period_coords \in PeriodLists :
           LET initial_coords ==
                   [i \in DOMAIN first_period_coords |->
                       [uid |-> i - 1, coord |-> first_period_coords[i]]]
           IN  trk' = [pc |-> "tracking",
                       num_time_steps |-> trk.num_time_steps,
                       t |-> 1,
                       tracked_data |->
                           [i \in DOMAIN first_period_coords |->
                               [unique_id |-> i - 1, time_step |-> 1,
                                coord |-> first_period_coords[i]]],
                       initial_coords |-> initial_coords,
                       reference_points |-> initial_coords,
                       last |-> [time_step |-> 1]]

\* lines 1779-1822: one pass of the loop over the later periods
TrackPeriod ==
    /\ trk.pc = "tracking"
    /\ trk.t < trk.num_time_steps
    /\ UNCHANGED <<nms, ce, ord, ui, ct, tm, wk>>
    /\ \E current_coords \in PeriodLists :
           IF Len(current_coords) = 0 \/ Len(trk.reference_points) = 0
               THEN trk' = [trk EXCEPT !.t = @ + 1,
                                       !.last = [time_step |-> trk.t + 1,
                                                 skipped |-> TRUE,
                                                 current_coords |-> current_coords]]
               ELSE LET potential_matches ==
                            SortedMatches(PotentialMatchSet(trk.reference_points,
                                                            current_coords))
                        committed == GreedyCommit(potential_matches, {}, {})
                    IN  trk' = [trk EXCEPT
                            !.t = @ + 1,
                            !.tracked_data =
                                @ \o PeriodRows(trk.reference_points, committed,
                                                current_coords, trk.t + 1),
                            !.reference_points =
                                NextReferencePoints(trk.reference_points,
                                                    committed, current_coords),
                            !.last = [time_step |-> trk.t + 1,
                                      skipped |-> FALSE,
                                      ref_before |-> trk.reference_points,
                                      current_coords |-> current_coords,
                                      potential_matches |-> potential_matches,
                                      committed |-> committed]]

\* a floating point value that is a number
Num(n) == [nan |-> FALSE, v |-> n]

\* the x of period 1 taken for the y
InitialX(tracked_data, unique_id) ==
    IF \E i \in DOMAIN tracked_data :
           tracked_data[i].time_step = 1 /\ tracked_data[i].unique_id = unique_id
        THEN Num(tracked_data[CHOOSE i \in DOMAIN tracked_data :
                              /\ tracked_data[i].time_step = 1
                              /\ tracked_data[i].unique_id = unique_id].coord.x)
        ELSE NaN

\* lines 1832-1836: y_initial of a row is the y_coord of the row of period 1
\* with the same unique_id, NaN where the join finds none
InitialY(tracked_data, unique_id) ==
    IF \E i \in DOMAIN tracked_data :
           tracked_data[i].time_step = 1 /\ tracked_data[i].unique_id = unique_id
        THEN Num(tracked_data[CHOOSE i \in DOMAIN tracked_data :
                              /\ tracked_data[i].time_step = 1
                              /\ tracked_data[i].unique_id = unique_id].coord.y)
        ELSE NaN

\* floating point subtraction: NaN on either side gives NaN
Minus(a, b) == IF a = NaN \/ b = NaN THEN NaN ELSE Num(a.v - b.v)

\* the y_coord column: NaN for a row without coordinate (line 1815)
YCoord(row) == IF row.coord = NaN THEN NaN ELSE Num(row.coord.y)

\* lines 1827-1841: the table with its y_initial and delta_y columns
WithDeltaY(tracked_data) ==
    [i \in DOMAIN tracked_data |->
        [unique_id |-> tracked_data[i].unique_id,
         time_step |-> tracked_data[i].time_step,
         y_coord |-> YCoord(tracked_data[i]),
         y_initial |-> InitialY(tracked_data, tracked_data[i].unique_id),
         delta_y |-> Minus(YCoord(tracked_data[i]),
                           InitialY(tracked_data, tracked_data[i].unique_id))]]

\* lines 1822-1841: the last pass is over, the displacements are computed
TrackFinish ==
    /\ trk.pc = "tracking"
    /\ trk.t = trk.num_time_steps
    /\ UNCHANGED <<nms, ce, ord, ui, ct, tm, wk>>
    /\ trk' = [trk EXCEPT !.pc = "done"]
               @@ [df |-> WithDeltaY(trk.tracked_data), error |-> FALSE]

NextTrk == TrackNothing \/ TrackFirstPeriod \/ TrackPeriod \/ TrackFinish

SpecTrk == InitTrk /\ [][NextTrk]_vars

\* the rows of the table for an id and a period
RowsOf(uid, time_step) ==
    {i \in DOMAIN trk.tracked_data :
        /\ trk.tracked_data[i].unique_id = uid
        /\ trk.tracked_data[i].time_step = time_step}

Tracked == trk.pc \in {"tracking", "done"}

RowCoord(uid, time_step) ==
    trk.tracked_data[CHOOSE i \in RowsOf(uid, time_step) : TRUE].coord

Matched == trk.pc \in {"tracking", "done"} /\ trk.last.time_step >= 2 /\ ~trk.last.skipped

RefCoord(dict, uid) == dict[Lookup(dict, uid)].coord

\* C2: ids are given in period 1 only, as the indices 0..n-1 of its points:
\* the ids of the table are exactly those, each with one period-1 row that
\* holds its period-1 point, and a candidate that matches no id adds none.
IdsOnlyFromFirstPeriod ==
    Tracked =>
        LET n == Len(trk.initial_coords)
        IN  /\ \A i \in 1 .. n : trk.initial_coords[i].uid = i - 1
            /\ {trk.tracked_data[i].unique_id : i \in DOMAIN trk.tracked_data} = 0 .. n - 1
            /\ \A uid \in 0 .. n - 1 :
                   /\ Cardinality(RowsOf(uid, 1)) = 1
                   /\ RowCoord(uid, 1) = trk.initial_coords[uid + 1].coord
            /\ Keys(trk.reference_points) \subseteq 0 .. n - 1

\* a later period had a candidate that no id took
IdsOnlyFromFirstPeriodWitness ==
    /\ trk.pc = "done"
    /\ Matched
    /\ Len(trk.last.current_coords) > Len(trk.last.committed)
    /\ Len(trk.last.committed) > 0

\* C3: every id of period 1 has exactly one row in every later period,
\* missing or matched.
EveryIdHasARowInEveryPeriod ==
    trk.pc = "done" =>
        \A uid \in Keys(trk.initial_coords) :
            \A time_step \in 2 .. trk.num_time_steps :
                Cardinality(RowsOf(uid, time_step)) = 1

\* C7: the matching of a period is one-to-one, within d_max, and greedy by
\* ascending distance: a pair within d_max stays uncommitted only when a
\* committed pair of smaller or equal distance holds one of its sides.
MatchingGreedyOneToOne ==
    Matched =>
        LET ref == trk.last.ref_before
            cur == trk.last.current_coords
            committed == trk.last.committed
            D(k) == Dist2(RefCoord(ref, committed[k].uid), cur[committed[k].cur_idx])
        IN  /\ \A k \in DOMAIN committed :
                   /\ committed[k].uid \in Keys(ref)
                   /\ committed[k].cur_idx \in DOMAIN cur
                   /\ D(k) <= MAX_MATCHING_DISTANCE * MAX_MATCHING_DISTANCE
                   /\ RowCoord(committed[k].uid, trk.last.time_step) = cur[committed[k].cur_idx]
            /\ \A j, k \in DOMAIN committed :
                   j # k => /\ committed[j].uid # committed[k].uid
                            /\ committed[j].cur_idx # committed[k].cur_idx
            /\ \A j, k \in DOMAIN committed : j < k => D(j) <= D(k)
            /\ \A r \in DOMAIN ref, c \in DOMAIN cur :
                   (/\ WithinMaxDistance(ref[r].coord, cur[c])
                    /\ ~\E k \in DOMAIN committed :
                           committed[k].uid = ref[r].uid /\ committed[k].cur_idx = c)
                   => \E k \in DOMAIN committed :
                          /\ committed[k].uid = ref[r].uid \/ committed[k].cur_idx = c
                          /\ D(k) <= Dist2(ref[r].coord, cur[c])

\* a pair within d_max was left uncommitted beside a committed one
MatchingGreedyOneToOneWitness ==
    /\ Matched
    /\ Len(trk.last.committed) = 2
    /\ Len(trk.last.potential_matches) > 2

\* the reference of a period is what the period before recorded
ReferenceIsPreviousPeriod ==
    Matched =>
        /\ \A r \in DOMAIN trk.last.ref_before :
               LET e == trk.last.ref_before[r]
               IN  /\ RowsOf(e.uid, trk.last.time_step - 1) # {}
                   /\ RowCoord(e.uid, trk.last.time_step - 1) = e.coord
        /\ \A r \in DOMAIN trk.reference_points :
               LET e == trk.reference_points[r]
               IN  RowCoord(e.uid, trk.last.time_step) = e.coord

\* C8 as stated: the reference is chained, and when every point of the
\* reference is present in the period within d_max of where it was (there
\* is a one-to-one choice of such candidates), every id is matched.
ChainedAndAlwaysMatched ==
    /\ ReferenceIsPreviousPeriod
    /\ Matched =>
           LET ref == trk.last.ref_before
               cur == trk.last.current_coords
           IN  (\E drift \in [DOMAIN ref -> DOMAIN cur] :
                    /\ \A q, r \in DOMAIN ref : q # r => drift[q] # drift[r]
                    /\ \A r \in DOMAIN ref :
                           WithinMaxDistance(ref[r].coord, cur[drift[r]]))
               => \A r \in DOMAIN ref :
                      RowCoord(ref[r].uid, trk.last.time_step) # NaN

\* C8: the reference is chained: period t+1 measures against the coordinates
\* matched in period t, of the ids matched in t.  An id of the reference is
\* matched unless every candidate within d_max of it went to another id by a
\* tuple that sorts earlier (smaller distance, or equal distance and smaller
\* id).
ChainedReference ==
    /\ ReferenceIsPreviousPeriod
    /\ Matched =>
           /\ Keys(trk.reference_points) =
                  {trk.last.committed[k].uid : k \in DOMAIN trk.last.committed}
           /\ \A r \in DOMAIN trk.last.ref_before :
                  LET e == trk.last.ref_before[r]
                      cur == trk.last.current_coords
                      committed == trk.last.committed
                  IN  RowCoord(e.uid, trk.last.time_step) = NaN =>
                          \A c \in DOMAIN cur :
                              WithinMaxDistance(e.coord, cur[c]) =>
                                  \E k \in DOMAIN committed :
                                      /\ committed[k].cur_idx = c
                                      /\ committed[k].uid # e.uid
                                      /\ \/ committed[k].dist2 < Dist2(e.coord, cur[c])
                                         \/ /\ committed[k].dist2 = Dist2(e.coord, cur[c])
                                            /\ committed[k].uid < e.uid

\* an id is matched farther than d_max from its period-1 point
ChainedReferenceWitness ==
    /\ Matched
    /\ \E k \in DOMAIN trk.last.committed :
           LET uid == trk.last.committed[k].uid
           IN  ~WithinMaxDistance(trk.initial_coords[uid + 1].coord,
                                  RowCoord(uid, trk.last.time_step))

(***************************************************************************)
(* PipelineOrchestrator: the slots of MainWindow that start the stage      *)
(* tasks and take their results.  Every slot runs in the main thread; a    *)
(* worker's result and finished signals reach it in that order, with other *)
(* events between them.  A stored value is written with the image its task *)
(* was started for, and a list of points is written as its length.         *)
(***************************************************************************)
UiImages == {"A", "B"}

NoImage == "None"

\* a key that is not in the dict
Absent == [present |-> FALSE, image_path |-> NoImage, count |-> 0]

Stored(image_path, count) ==
    [present |-> TRUE, image_path |-> image_path, count |-> count]

\* a worker that has not returned
Pending == [error |-> FALSE, count |-> -1]

\* line 606: processing_results[file_path] = {}
EmptyResults ==
    [template_rect |-> FALSE, rect_w |-> 0, template_w |-> Absent,
     final_points |-> Absent, final_points_w |-> 0, pixel_coords |-> Absent]

\* what a stage task returns: {"error": ...} or a count with its list
Outcomes ==
    {[error |-> TRUE, count |-> 0]} \cup {[error |-> FALSE, count |-> n] : n \in 0 .. MaxFound}

InFlight(w) == w.phase # "finished"

\* lines 924-1080, run for the worker by, or for the button when by = 0
run_circle_extraction(u, by) ==
    IF u.current_image_path = NoImage THEN u
    ELSE LET current_results == u.processing_results[u.current_image_path]
         IN  IF current_results.final_points = Absent \/ current_results.template_w = Absent
                 THEN u
             ELSE IF current_results.final_points.count = 0
                 THEN [u EXCEPT !.processing_results[u.current_image_path].pixel_coords = Absent]
             ELSE [u EXCEPT
                      !.workers = Append(@, [stage |-> "ce",
                                             image_path |-> u.current_image_path,
                                             tm_points |-> current_results.final_points,
                                             tm_w |-> current_results.template_w.count,
                                             points_w |-> current_results.final_points_w,
                                             phase |-> "running",
                                             outcome |-> Pending,
                                             by |-> by]),
                      !.run_ce_button = FALSE]

\* lines 905-922
trigger_ce_after_tm(u, by) ==
    IF u.current_image_path # NoImage
        THEN LET current_results == u.processing_results[u.current_image_path]
             IN  IF current_results.final_points # Absent /\ current_results.final_points.count > 0
                     THEN run_circle_extraction(u, by)
                     ELSE u
        ELSE u

\* lines 329-348: the window after construction; template_sizes are the
\* widths of the rectangles the user draws in the runs of a specification
WindowAtStart(template_sizes) ==
    [pc |-> "empty",
     template_sizes |-> template_sizes,
     current_image_path |-> NoImage,
     processing_results |-> [p \in UiImages |-> EmptyResults],
     workers |-> <<>>,
     run_tm_button |-> TRUE,
     run_ce_button |-> TRUE]

InitUi ==
    /\ ct = CtIdle
    /\ tm = TmIdle
    /\ wk = WkIdle
    /\ nms = NmsIdle
    /\ ce = CeIdle
    /\ ord = OrdIdle
    /\ trk = TrkIdle
    /\ ui = WindowAtStart({min_template_side})

\* lines 583-614 and 617-653: the images are added and the first is selected
load_images ==
    /\ ui.pc = "empty"
    /\ UNCHANGED <<nms, ce, ord, trk, ct, tm, wk>>
    /\ \E first \in UiImages :
           ui' = [ui EXCEPT !.pc = "loaded", !.current_image_path = first]

\* lines 617-653
on_image_selection_changed ==
    /\ ui.pc = "loaded"
    /\ UNCHANGED <<nms, ce, ord, trk, ct, tm, wk>>
    /\ \E new_image_path \in UiImages :
           /\ new_image_path # ui.current_image_path
           /\ ui' = [ui EXCEPT !.current_image_path = new_image_path]

\* lines 686-699; a rectangle under 5 by 5 is refused
handle_region_selected ==
    /\ ui.pc = "loaded"
    /\ ui.current_image_path # NoImage
    /\ UNCHANGED <<nms, ce, ord, trk, ct, tm, wk>>
    /\ \E too_small \in BOOLEAN, rect_w \in ui.template_sizes :
           ui' = IF too_small
                     THEN ui
                     ELSE [ui EXCEPT
                              !.processing_results[ui.current_image_path].template_rect = TRUE,
                              !.processing_results[ui.current_image_path].rect_w = rect_w,
                              !.processing_results[ui.current_image_path].template_w =
                                  Stored(ui.current_image_path, rect_w)]

\* lines 803-881, on a click of the enabled button
run_template_matching ==
    /\ ui.pc = "loaded"
    /\ ui.run_tm_button
    /\ Len(ui.workers) < MaxWorkers
    /\ ui.current_image_path # NoImage
    /\ ui.processing_results[ui.current_image_path].template_rect
    /\ UNCHANGED <<nms, ce, ord, trk, ct, tm, wk>>
    /\ ui' = [ui EXCEPT
                 !.workers = Append(@, [stage |-> "tm",
                                        image_path |-> ui.current_image_path,
                                        tm_points |-> Absent,
                                        tm_w |-> ui.processing_results[ui.current_image_path].rect_w,
                                        points_w |-> 0,
                                        phase |-> "running",
                                        outcome |-> Pending,
                                        by |-> 0]),
                 !.run_tm_button = FALSE]

\* a handler that stores what a failure result carries
StoresFailuresToo(u, result_data) == u.current_image_path # NoImage

\* lines 886-889 and 1086-1090: a result is stored when an image is selected
\* and the result has no "error" key
StoresResult(u, result_data) ==
    u.current_image_path # NoImage /\ ~result_data.error

\* lines 883-903, on the result signal of worker i
handle_tm_result ==
    /\ ui.pc = "loaded"
    /\ UNCHANGED <<nms, ce, ord, trk, ct, tm, wk>>
    /\ \E i \in DOMAIN ui.workers, result_data \in Outcomes :
           /\ ui.workers[i].stage = "tm"
           /\ ui.workers[i].phase = "running"
           /\ LET u == [ui EXCEPT !.workers[i].phase = "result",
                                  !.workers[i].outcome = result_data]
              IN  ui' = IF StoresResult(ui, result_data)
                            THEN [u EXCEPT
                                     !.processing_results[ui.current_image_path].final_points =
                                         Stored(ui.workers[i].image_path, result_data.count),
                                     !.processing_results[ui.current_image_path].final_points_w =
                                         ui.workers[i].tm_w,
                                     !.processing_results[ui.current_image_path].template_w =
                                         Stored(ui.workers[i].image_path, ui.workers[i].tm_w)]
                            ELSE u

\* lines 876 and 880, on the finished signal of worker i: the slots in the
\* order they were connected
tm_finished ==
    /\ ui.pc = "loaded"
    /\ UNCHANGED <<nms, ce, ord, trk, ct, tm, wk>>
    /\ \E i \in DOMAIN ui.workers :
           /\ ui.workers[i].stage = "tm"
           /\ ui.workers[i].phase = "result"
           /\ ui' = [trigger_ce_after_tm([ui EXCEPT !.workers[i].phase = "finished"], i)
                        EXCEPT !.run_tm_button = TRUE]
           /\ Len(ui'.workers) <= MaxWorkers

\* lines 924-1080, on a click of the enabled button
run_ce_clicked ==
    /\ ui.pc = "loaded"
    /\ ui.run_ce_button
    /\ UNCHANGED <<nms, ce, ord, trk, ct, tm, wk>>
    /\ ui' = run_circle_extraction(ui, 0)
    /\ Len(ui'.workers) <= MaxWorkers

\* lines 1083-1102, on the result signal of worker i
handle_ce_result ==
    /\ ui.pc = "loaded"
    /\ UNCHANGED <<nms, ce, ord, trk, ct, tm, wk>>
    /\ \E i \in DOMAIN ui.workers, result_data \in Outcomes :
           /\ ui.workers[i].stage = "ce"
           /\ ui.workers[i].phase = "running"
           /\ LET u == [ui EXCEPT !.workers[i].phase = "result",
                                  !.workers[i].outcome = result_data]
              IN  ui' = IF StoresResult(ui, result_data)
                            THEN [u EXCEPT
                                     !.processing_results[ui.current_image_path].pixel_coords =
                                         Stored(ui.workers[i].image_path, result_data.count)]
                            ELSE u

\* a finished slot that leaves the button as it is
ce_finished_without_button ==
    /\ ui.pc = "loaded"
    /\ UNCHANGED <<nms, ce, ord, trk, ct, tm, wk>>
    /\ \E i \in DOMAIN ui.workers :
           /\ ui.workers[i].stage = "ce"
           /\ ui.workers[i].phase = "result"
           /\ ui' = [ui EXCEPT !.workers[i].phase = "finished"]

\* line 1079, on the finished signal of worker i
ce_finished ==
    /\ ui.pc = "loaded"
    /\ UNCHANGED <<nms, ce, ord, trk, ct, tm, wk>>
    /\ \E i \in DOMAIN ui.workers :
           /\ ui.workers[i].stage = "ce"
           /\ ui.workers[i].phase = "result"
           /\ ui' = [ui EXCEPT !.workers[i].phase = "finished", !.run_ce_button = TRUE]

NextUi ==
    \/ load_images
    \/ on_image_selection_changed
    \/ handle_region_selected
    \/ run_template_matching
    \/ handle_tm_result
    \/ tm_finished
    \/ run_ce_clicked
    \/ handle_ce_result
    \/ ce_finished

SpecUi == InitUi /\ [][NextUi]_vars

\* C4: what a task started for an image stores is stored under that image:
\* every stored marker list and center list is the one of a task of the image
\* whose key holds it.
ResultsUnderTheTaskImage ==
    ui.pc = "loaded" =>
        \A p \in UiImages :
            LET r == ui.processing_results[p]
            IN  /\ r.final_points # Absent => r.final_points.image_path = p
                /\ r.pixel_coords # Absent => r.pixel_coords.image_path = p

\* C5: at most one task of a stage is in flight for an image, and the
\* trigger of a stage is disabled while a run of it is in flight.
OneTaskPerStageInFlight ==
    ui.pc = "loaded" =>
        /\ \A i, j \in DOMAIN ui.workers :
               (/\ i # j
                /\ InFlight(ui.workers[i])
                /\ InFlight(ui.workers[j])
                /\ ui.workers[i].stage = ui.workers[j].stage)
               => ui.workers[i].image_path # ui.workers[j].image_path
        /\ \A i \in DOMAIN ui.workers :
               InFlight(ui.workers[i]) =>
                   /\ ui.workers[i].stage = "tm" => ~ui.run_tm_button
                   /\ ui.workers[i].stage = "ce" => ~ui.run_ce_button

\* C6: a CenterExtractor run is auto-started only by a MarkerLocator run
\* that itself found at least one marker.
AutoChainGuardedByTheRun ==
    ui.pc = "loaded" =>
        \A j \in DOMAIN ui.workers :
            ui.workers[j].by # 0 =>
                /\ ~ui.workers[ui.workers[j].by].outcome.error
                /\ ui.workers[ui.workers[j].by].outcome.count > 0

(***************************************************************************)
(* CoordinateMapper: ct_task and handle_ct_result.                         *)
(* Pixel coordinates are counted in steps of 50 pixels.  A coordinate that *)
(* the transform gives is a fraction [num, den]; the matrix is kept as its *)
(* six numerators over one denominator.  The arithmetic is exact.          *)
(***************************************************************************)
\* the control pixel positions
CtControlPixels == [x : {0, 1, 2}, y : {0, 2}]

\* the real coordinates entered for the control points
CtControlReals == {[x |-> 0, y |-> 0], [x |-> 1, y |-> 0], [x |-> 0, y |-> 1]}

\* the three table rows of real coordinates, no two alike
ControlRealLists == {f \in [1 .. 3 -> CtControlReals] : \A i, j \in 1 .. 3 : f[i] = f[j] => i = j}

\* the centers a run transforms
CtCenters == {[x |-> 0, y |-> 0], [x |-> 1, y |-> 1], [x |-> 2, y |-> 1]}

CenterLists == UNION {[1 .. n -> CtCenters] : n \in 0 .. MaxCenters}

Det3(a, b, c) ==
    a[1] * (b[2] * c[3] - b[3] * c[2])
        - a[2] * (b[1] * c[3] - b[3] * c[1])
        + a[3] * (b[1] * c[2] - b[2] * c[1])

\* the determinant of the system cv2.getAffineTransform solves
ControlDet(src) ==
    Det3(<<src[1].x, src[1].y, 1>>, <<src[2].x, src[2].y, 1>>,
         <<src[3].x, src[3].y, 1>>)

\* one row of the solution, by Cramer's rule: the coefficients of x and y and
\* the constant, over ControlDet(src)
SolveRow(src, u) ==
    <<Det3(<<u[1], src[1].y, 1>>, <<u[2], src[2].y, 1>>, <<u[3], src[3].y, 1>>),
      Det3(<<src[1].x, u[1], 1>>, <<src[2].x, u[2], 1>>, <<src[3].x, u[3], 1>>),
      Det3(<<src[1].x, src[1].y, u[1]>>, <<src[2].x, src[2].y, u[2]>>,
           <<src[3].x, src[3].y, u[3]>>)>>

\* what cv2.getAffineTransform leaves for collinear points: cv::solve raises
\* nothing; it fills the matrix with zeros when its LU step meets the zero
\* pivot, and with whatever the elimination gives when rounding hides it
SingularSolutions ==
    {[den |-> 1, m |-> <<<<a, 0, b>>, <<0, a, b>>>>] : a \in {0, 1}, b \in {0, 1}}

\* line 1265: the matrices cv2.getAffineTransform(src, dst) can return
getAffineTransform(src, dst) ==
    IF ControlDet(src) # 0
        THEN {[den |-> ControlDet(src),
               m |-> <<SolveRow(src, <<dst[1].x, dst[2].x, dst[3].x>>),
                       SolveRow(src, <<dst[1].y, dst[2].y, dst[3].y>>)>>]}
        ELSE SingularSolutions

\* the product without the column of ones of line 1267
TransformWithoutOnes(transform_matrix, p) ==
    [x |-> [num |-> transform_matrix.m[1][1] * p.x + transform_matrix.m[1][2] * p.y,
            den |-> transform_matrix.den],
     y |-> [num |-> transform_matrix.m[2][1] * p.x + transform_matrix.m[2][2] * p.y,
            den |-> transform_matrix.den]]

\* lines 1267-1269: [x, y, 1] times the transposed matrix
Transform(transform_matrix, p) ==
    [x |-> [num |-> transform_matrix.m[1][1] * p.x + transform_matrix.m[1][2] * p.y
                        + transform_matrix.m[1][3],
            den |-> transform_matrix.den],
     y |-> [num |-> transform_matrix.m[2][1] * p.x + transform_matrix.m[2][2] * p.y
                        + transform_matrix.m[2][3],
            den |-> transform_matrix.den]]

NoMatrix == [den |-> 0, m |-> <<<<0, 0, 0>>, <<0, 0, 0>>>>]

\* lines 1255-1276: the result_data a run can return, with the matrix it used
ct_task(pixel_coords_data, control_pixel, control_real) ==
    IF Len(pixel_coords_data) = 0
        THEN {[error |-> FALSE, real_coords |-> <<>>, transform_matrix |-> NoMatrix]}
        ELSE {[error |-> FALSE,
               real_coords |-> [k \in DOMAIN pixel_coords_data |->
                                   Transform(transform_matrix, pixel_coords_data[k])],
               transform_matrix |-> transform_matrix] :
                  transform_matrix \in getAffineTransform(control_pixel, control_real)}

InitCt ==
    /\ tm = TmIdle
    /\ wk = WkIdle
    /\ nms = NmsIdle
    /\ ce = CeIdle
    /\ ord = OrdIdle
    /\ trk = TrkIdle
    /\ ui = UiIdle
    /\ \E control_pixel \in [1 .. 3 -> CtControlPixels],
          control_real \in ControlRealLists,
          pixel_coords \in CenterLists :
              ct = [pc |-> "started",
                    control_pixel |-> control_pixel,
                    control_real |-> control_real,
                    pixel_coords |-> pixel_coords,
                    stored |-> [present |-> FALSE, real_coords |-> <<>>]]

\* lines 1249-1276: the worker runs ct_task and emits its result
CtTaskReturns ==
    /\ ct.pc = "started"
    /\ UNCHANGED <<nms, ce, ord, trk, ui, tm, wk>>
    /\ \E result_data \in ct_task(ct.pixel_coords, ct.control_pixel, ct.control_real) :
           ct' = [ct EXCEPT !.pc = "returned"] @@ [result_data |-> result_data]

\* lines 1300-1315: the slot stores the real coordinates of a result that
\* carries no error
handle_ct_result ==
    /\ ct.pc = "returned"
    /\ UNCHANGED <<nms, ce, ord, trk, ui, tm, wk>>
    /\ ct' = [ct EXCEPT
                 !.pc = "done",
                 !.stored = IF ct.result_data.error
                                THEN @
                                ELSE [present |-> TRUE,
                                      real_coords |-> ct.result_data.real_coords]]

NextCt == CtTaskReturns \/ handle_ct_result

SpecCt == InitCt /\ [][NextCt]_vars

\* the three control pixel positions lie on one line
Collinear(control_pixel) == ControlDet(control_pixel) = 0

\* two fractions are the same number
SameNumber(a, b) == a.num * b.den = b.num * a.den

\* the image of p under the affine map of a matrix
AffineImage(M, p) ==
    [x |-> [num |-> M.m[1][1] * p.x + M.m[1][2] * p.y + M.m[1][3], den |-> M.den],
     y |-> [num |-> M.m[2][1] * p.x + M.m[2][2] * p.y + M.m[2][3], den |-> M.den]]

Whole(n) == [num |-> n, den |-> 1]

\* C13: for non-collinear control pixel points the run does not fail, its
\* matrix maps every control pixel point to its real coordinate, and every
\* stored real coordinate is the image of its center under that matrix;
\* controls (0,0),(100,0),(0,100) -> (0,0),(1,0),(0,1) send (50,50) to
\* (0.5,0.5).
ControlsMapToReals ==
    (ct.pc = "done" /\ ~Collinear(ct.control_pixel) /\ Len(ct.pixel_coords) > 0) =>
        LET M == ct.result_data.transform_matrix
        IN  /\ ~ct.result_data.error
            /\ M.den # 0
            /\ \A i \in 1 .. 3 :
                   /\ SameNumber(AffineImage(M, ct.control_pixel[i]).x,
                                 Whole(ct.control_real[i].x))
                   /\ SameNumber(AffineImage(M, ct.control_pixel[i]).y,
                                 Whole(ct.control_real[i].y))
            /\ ct.stored.present
            /\ Len(ct.stored.real_coords) = Len(ct.pixel_coords)
            /\ \A k \in DOMAIN ct.pixel_coords :
                   /\ ct.stored.real_coords[k].x.den # 0
                   /\ SameNumber(ct.stored.real_coords[k].x,
                                 AffineImage(M, ct.pixel_coords[k]).x)
                   /\ SameNumber(ct.stored.real_coords[k].y,
                                 AffineImage(M, ct.pixel_coords[k]).y)
            /\ (/\ ct.control_pixel = <<[x |-> 0, y |-> 0], [x |-> 2, y |-> 0],
                                        [x |-> 0, y |-> 2]>>
                /\ ct.control_real = <<[x |-> 0, y |-> 0], [x |-> 1, y |-> 0],
                                       [x |-> 0, y |-> 1]>>)
               => \A k \in DOMAIN ct.pixel_coords :
                      ct.pixel_coords[k] = [x |-> 1, y |-> 1] =>
                          /\ SameNumber(ct.stored.real_coords[k].x, [num |-> 1, den |-> 2])
                          /\ SameNumber(ct.stored.real_coords[k].y, [num |-> 1, den |-> 2])

\* the run of Scenario C
ControlsMapToRealsWitness ==
    /\ ct.pc = "done"
    /\ ct.control_pixel = <<[x |-> 0, y |-> 0], [x |-> 2, y |-> 0], [x |-> 0, y |-> 2]>>
    /\ ct.control_real = <<[x |-> 0, y |-> 0], [x |-> 1, y |-> 0], [x |-> 0, y |-> 1]>>
    /\ ct.pixel_coords = <<[x |-> 1, y |-> 1]>>
    /\ ct.stored.present

\* C14: with collinear control pixel positions the run ends in a failure
\* result and no real coordinates are stored.
CollinearControlsFail ==
    (ct.pc = "done" /\ Collinear(ct.control_pixel)) =>
        /\ ct.result_data.error
        /\ ~ct.stored.present

(***************************************************************************)
(* MarkerLocator: best-first and covering suppression.                     *)
(***************************************************************************)
\* line 783: the positions whose score reaches the threshold
Candidates == {p \in Positions : nms.res[p] >= nms.tm_threshold}

\* the score of a position of the surface
ScoreAt(p) == nms.res[<<p[1], p[2]>>]

\* position p is one of the kept Markers
IsKept(p) == \E i \in DOMAIN nms.final_points :
                 nms.final_points[i] = [x |-> p[1], y |-> p[2]]

\* line 797, negated: a and b are within nms_distance in both axes
WithinNms(a, b) ==
    /\ Abs(a[1] - b[1]) <= nms.nms_distance
    /\ Abs(a[2] - b[2]) <= nms.nms_distance

\* the parts of C15 that speak of the kept list as a whole: non-increasing
\* score order starting with the highest candidate, every kept Marker a
\* candidate, every absent candidate covered by a kept Marker of at least its
\* score
BestFirstAndCovering ==
    LET kept == nms.final_points
        at(i) == <<kept[i].x, kept[i].y>>
    IN  /\ \A i, j \in DOMAIN kept : i < j => ScoreAt(at(i)) >= ScoreAt(at(j))
        /\ Candidates # {} =>
               /\ Len(kept) >= 1
               /\ \A c \in Candidates : ScoreAt(at(1)) >= ScoreAt(c)
        /\ \A i \in DOMAIN kept : at(i) \in Candidates
        /\ \A c \in Candidates :
               ~IsKept(c) =>
                   \E i \in DOMAIN kept :
                       /\ WithinNms(c, at(i))
                       /\ ScoreAt(at(i)) >= ScoreAt(c)

\* two candidates farther apart than nms_distance with no other candidates
\* are both kept
FarPairBothKept ==
    \A a, b \in Candidates :
        (Candidates = {a, b} /\ ~WithinNms(a, b)) => (IsKept(a) /\ IsKept(b))

\* C15 as stated: best-first and covering, and of ANY two candidates within
\* nms_distance of each other the higher-scoring one is kept and the other
\* is not.
HigherOfAnyClosePairKept ==
    nms.pc = "done" =>
        /\ BestFirstAndCovering
        /\ \A a, b \in Candidates :
               (WithinNms(a, b) /\ ScoreAt(a) > ScoreAt(b)) =>
                   (IsKept(a) /\ ~IsKept(b))
        /\ FarPairBothKept

\* C15, amended: best-first and covering; of two candidates within
\* nms_distance of each other never both are kept, the lower-scoring one is
\* kept only when the higher-scoring one was itself removed by a kept Marker
\* of at least its score, and with no other candidates exactly the
\* higher-scoring one is kept; two candidates farther apart with no other
\* candidates are both kept.
HigherOfLoneClosePairKept ==
    nms.pc = "done" =>
        /\ BestFirstAndCovering
        /\ \A a, b \in Candidates :
               (WithinNms(a, b) /\ ScoreAt(a) > ScoreAt(b)) =>
                   /\ ~(IsKept(a) /\ IsKept(b))
                   /\ IsKept(b) =>
                          \E c \in Candidates :
                              /\ c # a
                              /\ IsKept(c)
                              /\ WithinNms(a, c)
                              /\ ScoreAt(c) >= ScoreAt(a)
                   /\ Candidates = {a, b} =>
                          nms.final_points = <<[x |-> a[1], y |-> a[2]]>>
        /\ FarPairBothKept

\* a chain: the middle candidate is removed by the best one, and the lowest
\* one, near the middle and far from the best, is kept
HigherOfLoneClosePairKeptWitness ==
    /\ nms.pc = "done"
    /\ \E a, b \in Candidates :
           /\ WithinNms(a, b)
           /\ ScoreAt(a) > ScoreAt(b)
           /\ ~IsKept(a)
           /\ IsKept(b)

(***************************************************************************)
(* MarkerLocator: ties in score go to the candidate discovered first.      *)
(***************************************************************************)
\* line 783: np.where lists the positions row by row
Discovery(p) == p[2] * ResW + p[1]

\* the list of line 788 is in descending score, equal scores in the order of
\* discovery
SortedStably ==
    \A i, j \in DOMAIN nms.points_scores :
        i < j =>
            LET a == nms.points_scores[i]
                b == nms.points_scores[j]
            IN  \/ a.score > b.score
                \/ /\ a.score = b.score
                   /\ Discovery(<<a.x, a.y>>) < Discovery(<<b.x, b.y>>)

\* C16 as stated: the sort is stable on descending score, and of ANY two
\* equal-score candidates within nms_distance of each other the one
\* discovered earlier is the kept Marker.
EarlierOfAnyTiedPairKept ==
    nms.pc = "done" =>
        /\ SortedStably
        /\ \A a, b \in Candidates :
               (/\ WithinNms(a, b)
                /\ ScoreAt(a) = ScoreAt(b)
                /\ Discovery(a) < Discovery(b)) => (IsKept(a) /\ ~IsKept(b))

\* C16, amended: the sort is stable on descending score; of two equal-score
\* candidates within nms_distance of each other never both are kept, the
\* later-discovered one is kept only when the earlier one was removed by
\* another kept Marker that the order puts before it, and with no other
\* candidates the earlier-discovered one is the one kept Marker.
EarlierOfLoneTiedPairKept ==
    nms.pc = "done" =>
        /\ SortedStably
        /\ \A a, b \in Candidates :
               (/\ WithinNms(a, b)
                /\ ScoreAt(a) = ScoreAt(b)
                /\ Discovery(a) < Discovery(b)) =>
                   /\ ~(IsKept(a) /\ IsKept(b))
                   /\ IsKept(b) =>
                          \E c \in Candidates :
                              /\ IsKept(c)
                              /\ WithinNms(a, c)
                              /\ \/ ScoreAt(c) > ScoreAt(a)
                                 \/ /\ ScoreAt(c) = ScoreAt(a)
                                    /\ Discovery(c) < Discovery(a)
                   /\ Candidates = {a, b} =>
                          nms.final_points = <<[x |-> a[1], y |-> a[2]]>>

\* two equal-score candidates alone and within nms_distance: the earlier one
\* is kept
EarlierOfLoneTiedPairKeptWitness ==
    /\ nms.pc = "done"
    /\ \E a, b \in Candidates :
           /\ Candidates = {a, b}
           /\ WithinNms(a, b)
           /\ ScoreAt(a) = ScoreAt(b)
           /\ Discovery(a) < Discovery(b)
           /\ IsKept(a)
           /\ ~IsKept(b)

(***************************************************************************)
(* Failures of stage tasks.  The runs with at most MaxShortWorkers workers *)
(* started.                                                                *)
(***************************************************************************)
ShortRun == Len(ui'.workers) <= MaxShortWorkers

NextUiShort ==
    \/ load_images /\ ShortRun
    \/ on_image_selection_changed /\ ShortRun
    \/ handle_region_selected /\ ShortRun
    \/ run_template_matching /\ ShortRun
    \/ handle_tm_result /\ ShortRun
    \/ tm_finished /\ ShortRun
    \/ run_ce_clicked /\ ShortRun
    \/ handle_ce_result /\ ShortRun
    \/ ce_finished /\ ShortRun

SpecUiShort == InitUi /\ [][NextUiShort]_vars

\* worker i's failure result is being handled in this step: its result slot
\* or its finished slots run
FailureHandled(i) ==
    /\ ui'.workers[i].phase # ui.workers[i].phase
    /\ ui'.workers[i].outcome.error

DisplacementFromFirstPeriod ==
    trk.pc = "done" =>
        /\ Len(trk.df) = Len(trk.tracked_data)
        /\ \A i \in DOMAIN trk.df :
               LET u == trk.df[i].unique_id
                   t == trk.df[i].time_step
               IN  /\ u = trk.tracked_data[i].unique_id
                   /\ t = trk.tracked_data[i].time_step
                   /\ RowCoord(u, t) # NaN =>
                          trk.df[i].delta_y = Num(RowCoord(u, t).y - RowCoord(u, 1).y)
                   /\ t = 1 => trk.df[i].delta_y = Num(0)
                   /\ RowCoord(u, t) = NaN => trk.df[i].delta_y = NaN

\* an id moved in y, and an id is missing in a period
DisplacementFromFirstPeriodWitness ==
    /\ trk.pc = "done"
    /\ \E i, j \in DOMAIN trk.df :
           /\ trk.df[i].delta_y # NaN
           /\ trk.df[i].delta_y # Num(0)
           /\ trk.df[j].delta_y = NaN

(***************************************************************************)
(* Determinism of the tracker.                                             *)
(***************************************************************************)
\* C19: a period's matching is fixed by its input: whatever a sort does with
\* tuples it does not order, the sorted list and the pairs committed from it
\* are the ones of this run, ties in distance included; the ids are the
\* positions in period 1.
TrackingDeterministic ==
    /\ Tracked =>
           \A i \in DOMAIN trk.initial_coords : trk.initial_coords[i].uid = i - 1
    /\ Matched =>
           \A s \in SortOrders(PotentialMatchSet(trk.last.ref_before,
                                                 trk.last.current_coords)) :
               /\ s = trk.last.potential_matches
               /\ GreedyCommit(s, {}, {}) = trk.last.committed

\* two ids at the same distance from one candidate
TrackingDeterministicWitness ==
    /\ Matched
    /\ \E i, j \in DOMAIN trk.last.potential_matches :
           /\ i # j
           /\ trk.last.potential_matches[i].dist2 = trk.last.potential_matches[j].dist2
           /\ trk.last.potential_matches[i].cur_idx = trk.last.potential_matches[j].cur_idx
           /\ Len(trk.last.committed) >= 1

(***************************************************************************)
(* Two periods.                                                            *)
(***************************************************************************)
\* the squared distance of a candidate of period 2 from the period-1 point
\* of an id is at most d_max squared
NearFirst(uid, c) ==
    Dist2(RefCoord(trk.initial_coords, uid), trk.last.current_coords[c])
        <= MAX_MATCHING_DISTANCE * MAX_MATCHING_DISTANCE

\* C20: with two periods every id has one row in period 2; an id the
\* matching commits a candidate to is recorded with that candidate's
\* coordinate, which is within d_max of its period-1 point; an id with no
\* candidate within d_max is recorded as NaN; with 2 points in period 1 and
\* 1 point in period 2 within d_max of the first only, id 0 has coordinates
\* in both periods and id 1 is NaN in period 2.
TwoPeriodsMatchedOrMissing ==
    (trk.pc = "done" /\ trk.num_time_steps = 2) =>
        LET cur == trk.last.current_coords
            committed == trk.last.committed
        IN  /\ \A uid \in Keys(trk.initial_coords) :
                   /\ Cardinality(RowsOf(uid, 1)) = 1
                   /\ Cardinality(RowsOf(uid, 2)) = 1
                   /\ \A k \in DOMAIN committed :
                          committed[k].uid = uid =>
                              /\ NearFirst(uid, committed[k].cur_idx)
                              /\ RowCoord(uid, 2) = cur[committed[k].cur_idx]
                   /\ (\A c \in DOMAIN cur : ~NearFirst(uid, c)) =>
                          RowCoord(uid, 2) = NaN
                   /\ RowCoord(uid, 2) # NaN =>
                          \E k \in DOMAIN committed : committed[k].uid = uid
            /\ (/\ Len(trk.initial_coords) = 2
                /\ Len(cur) = 1
                /\ NearFirst(0, 1)
                /\ ~NearFirst(1, 1)) =>
                   /\ RowCoord(0, 1) # NaN
                   /\ RowCoord(0, 2) = cur[1]
                   /\ RowCoord(1, 1) # NaN
                   /\ RowCoord(1, 2) = NaN

\* Scenario D
TwoPeriodsMatchedOrMissingWitness ==
    /\ trk.pc = "done"
    /\ trk.num_time_steps = 2
    /\ Len(trk.initial_coords) = 2
    /\ Len(trk.last.current_coords) = 1
    /\ NearFirst(0, 1)
    /\ ~NearFirst(1, 1)
    /\ RowCoord(1, 2) = NaN

(***************************************************************************)
(* The images without points.  plot_task meets the images in the order of  *)
(* their names; TrackDropImage is its step for an image whose real_coords  *)
(* are absent or of size 0.                                                *)
(***************************************************************************)
\* the mark of an image that was met and had no points
DroppedImage(time_step) == [time_step |-> time_step, skipped |-> TRUE, dropped |-> TRUE]

\* lines 1752-1756: such an image adds nothing to periods_data; no period
\* stands for it and the loop of lines 1779-1822 never sees it
TrackDropImage ==
    /\ UNCHANGED <<nms, ce, ord, ui, ct, tm, wk>>
    /\ \/ /\ trk.pc = "collected"
          /\ "last" \notin DOMAIN trk
          /\ trk' = trk @@ [last |-> DroppedImage(0)]
       \/ /\ trk.pc = "tracking"
          /\ "dropped" \notin DOMAIN trk.last
          /\ trk' = [trk EXCEPT !.last = DroppedImage(trk.t)]

NextTrkImages == NextTrk \/ TrackDropImage

SpecTrkImages == InitTrk /\ [][NextTrkImages]_vars

\* C21: an image with zero points met after period 1 gives a period with a
\* missing row for every live reference id; an empty sequence gives an empty
\* table and no error; when the first image has zero points the run ends
\* with the empty table and no error.
ZeroPointPeriodGivesMissingRows ==
    [][/\ (trk.pc = "tracking" /\ trk'.pc = "tracking" /\ "dropped" \in DOMAIN trk'.last
              /\ "dropped" \notin DOMAIN trk.last) =>
              \A uid \in Keys(trk.reference_points) :
                  \E i \in DOMAIN trk'.tracked_data :
                      /\ i \notin DOMAIN trk.tracked_data
                      /\ trk'.tracked_data[i].unique_id = uid
                      /\ trk'.tracked_data[i].coord = NaN
       /\ (trk.pc = "collected" /\ trk.num_time_steps = 0 /\ trk'.pc = "done") =>
              (trk'.tracked_data = <<>> /\ ~trk'.error)
       /\ (trk.pc = "collected" /\ "last" \in DOMAIN trk /\ trk'.pc # "collected") =>
              (trk'.pc = "done" /\ trk'.tracked_data = <<>> /\ ~trk'.error)]_vars

(***************************************************************************)
(* CenterExtractor on an empty Marker list.                                *)
(***************************************************************************)
\* lines 929-946 ran for the selected image with an empty Marker list: the
\* only step that changes pixel_coords and no worker
ExtractionFromNoMarkers ==
    /\ ui.pc = "loaded"
    /\ ui.current_image_path # NoImage
    /\ ui'.current_image_path = ui.current_image_path
    /\ ui'.workers = ui.workers
    /\ ui.processing_results[ui.current_image_path].final_points # Absent
    /\ ui.processing_results[ui.current_image_path].final_points.count = 0
    /\ ui'.processing_results[ui.current_image_path].pixel_coords
           # ui.processing_results[ui.current_image_path].pixel_coords

\* C22: CenterExtractor on an empty Marker list starts no task that could
\* fail, and afterwards the image's result holds a center list of count
\* zero.
NoMarkersGiveZeroCenters ==
    [][ExtractionFromNoMarkers =>
           ui'.processing_results[ui.current_image_path].pixel_coords.present]_vars

(***************************************************************************)
(* MarkerLocator: the template patch of tm_task and what its result        *)
(* leaves in the store.                                                    *)
(***************************************************************************)
Max(a, b) == IF a > b THEN a ELSE b

\* the rectangles handle_region_selected accepts; the view maps the mouse to
\* scene coordinates, which may lie outside the image
RectXs == -6 .. 7
RectYs == {-6, -1, 0, 2, 6}
RectWs == {5, 6, 7}
RectHs == {5, 6}

TemplateRects ==
    {rect \in [x : RectXs, y : RectYs, w : RectWs, h : RectHs] :
        rect.w >= min_template_side /\ rect.h >= min_template_side}

\* what the image's result holds of MarkerLocator: tm_count, final_points,
\* template_w and template_h
TmNothingStored == [tm_count |-> -1, template_w |-> 0, template_h |-> 0]

TmEarlierStored == [tm_count |-> 1, template_w |-> 5, template_h |-> 5]

\* lines 831-834: x = max(0, x); y = max(0, y);
\* w = min(w, width - x); h = min(h, height - y)
ClipTemplate(rect) ==
    LET x == Max(0, rect.x)
        y == Max(0, rect.y)
    IN  [x |-> x, y |-> y, w |-> Min(rect.w, ImgW - x), h |-> Min(rect.h, ImgH - y)]

\* lines 825-862: the result_data of tm_task
tm_task(decoded, rect, num_matches) ==
    IF ~decoded
        THEN [error |-> TRUE]
    ELSE IF ClipTemplate(rect).w <= 0 \/ ClipTemplate(rect).h <= 0
        THEN [error |-> TRUE]
    ELSE [error |-> FALSE, matched_regions_count |-> num_matches,
          template |-> ClipTemplate(rect)]

InitTm ==
    /\ nms = NmsIdle
    /\ ce = CeIdle
    /\ ord = OrdIdle
    /\ trk = TrkIdle
    /\ ui = UiIdle
    /\ ct = CtIdle
    /\ wk = WkIdle
    /\ \E rect \in TemplateRects, decoded \in BOOLEAN,
          stored \in {TmNothingStored, TmEarlierStored} :
              tm = [pc |-> "started", rect |-> rect, decoded |-> decoded,
                    before |-> stored, stored |-> stored]

\* lines 825-862: the worker runs tm_task
TmTaskReturns ==
    /\ tm.pc = "started"
    /\ UNCHANGED <<nms, ce, ord, trk, ui, ct, wk>>
    /\ \E num_matches \in 0 .. 1 :
           tm' = [tm EXCEPT !.pc = "returned"]
                     @@ [result_data |-> tm_task(tm.decoded, tm.rect, num_matches)]

\* lines 883-903 with the image of the run selected
TmResultHandled ==
    /\ tm.pc = "returned"
    /\ UNCHANGED <<nms, ce, ord, trk, ui, ct, wk>>
    /\ tm' = [tm EXCEPT
                 !.pc = "done",
                 !.stored = IF tm.result_data.error
                                THEN @
                                ELSE [tm_count |-> tm.result_data.matched_regions_count,
                                      template_w |-> tm.result_data.template.w,
                                      template_h |-> tm.result_data.template.h]]

NextTm == TmTaskReturns \/ TmResultHandled

SpecTm == InitTm /\ [][NextTm]_vars

\* the selected rectangle meets the image in [left, right) by [top, bottom)
Overlap(rect) ==
    [left |-> Max(rect.x, 0), right |-> Min(rect.x + rect.w, ImgW),
     top |-> Max(rect.y, 0), bottom |-> Min(rect.y + rect.h, ImgH)]

\* C23: a run whose image cannot be decoded, or whose region clipped to the
\* image has a width or height that is not positive, ends in an error and
\* leaves tm_count, the marker list and the template size as they were.
DegenerateRegionIsAnError ==
    (/\ tm.pc = "done"
     /\ \/ ~tm.decoded
        \/ Overlap(tm.rect).right - Overlap(tm.rect).left <= 0
        \/ Overlap(tm.rect).bottom - Overlap(tm.rect).top <= 0) =>
        /\ tm.result_data.error
        /\ tm.stored = tm.before

\* C25: the patch of a run that does not fail has a width and a height
\* above 0, lies inside the image and lies inside the selected rectangle.
PatchInsideImageAndRect ==
    (tm.pc = "done" /\ ~tm.result_data.error) =>
        LET patch == tm.result_data.template
        IN  /\ patch.w > 0
            /\ patch.h > 0
            /\ 0 <= patch.x
            /\ patch.x + patch.w <= ImgW
            /\ 0 <= patch.y
            /\ patch.y + patch.h <= ImgH
            /\ tm.rect.x <= patch.x
            /\ patch.x + patch.w <= tm.rect.x + tm.rect.w
            /\ tm.rect.y <= patch.y
            /\ patch.y + patch.h <= tm.rect.y + tm.rect.h

(***************************************************************************)
(* CoordinateMapper: the control point table and the start of a run.       *)
(***************************************************************************)
\* a row of control_point_table: a pixel position once one was picked, a
\* real coordinate once one was entered.  A cell that is not set holds the
\* prompt, written here as the origin.
ControlRows ==
    {row \in [px_set : BOOLEAN, real_set : BOOLEAN,
              pixel : {[x |-> 0, y |-> 0], [x |-> 2, y |-> 0], [x |-> 0, y |-> 2]},
              real : {[x |-> 0, y |-> 0], [x |-> 1, y |-> 0]}] :
        /\ ~row.px_set => row.pixel = [x |-> 0, y |-> 0]
        /\ ~row.real_set => row.real = [x |-> 0, y |-> 0]}

\* the pixel_coords key of the selected image
TablePixelCoords ==
    {[present |-> FALSE, list |-> <<>>], [present |-> TRUE, list |-> <<>>],
     [present |-> TRUE, list |-> <<[x |-> 1, y |-> 1]>>]}

\* a row counted although no real coordinate was entered
ValidRowByPixelAlone(row) == row.px_set

\* lines 1216-1222: the row has its pixel cells and its real coordinate
ValidRow(row) == row.px_set /\ row.real_set

\* lines 1211-1231: the rows that count, in table order
RECURSIVE ValidRows(_)
ValidRows(rows) ==
    IF rows = <<>> THEN <<>>
    ELSE (IF ValidRow(Head(rows)) THEN <<Head(rows)>> ELSE <<>>)
             \o ValidRows(Tail(rows))

\* line 517: the table has three rows
InitCtTable ==
    /\ tm = TmIdle
    /\ wk = WkIdle
    /\ nms = NmsIdle
    /\ ce = CeIdle
    /\ ord = OrdIdle
    /\ trk = TrkIdle
    /\ ui = UiIdle
    /\ \E rows \in [1 .. 3 -> ControlRows], pixel_coords \in TablePixelCoords :
           ct = [pc |-> "table", rows |-> rows, table_pixel_coords |-> pixel_coords,
                 stored |-> [present |-> FALSE, real_coords |-> <<>>],
                 run_ct_button |-> TRUE]

\* lines 1193-1297, on a click of the button
run_coordinate_transformation ==
    /\ ct.pc = "table"
    /\ UNCHANGED <<nms, ce, ord, trk, ui, tm, wk>>
    /\ LET valid == ValidRows(ct.rows)
       IN  IF ~ct.table_pixel_coords.present \/ Len(valid) < 3
               THEN ct' = [ct EXCEPT !.pc = "refused"]
               ELSE ct' = [ct EXCEPT !.pc = "started", !.run_ct_button = FALSE]
                              @@ [control_pixel |-> [i \in DOMAIN valid |-> valid[i].pixel],
                                  control_real |-> [i \in DOMAIN valid |-> valid[i].real],
                                  pixel_coords |-> ct.table_pixel_coords.list]

NextCtTable == run_coordinate_transformation \/ CtTaskReturns \/ handle_ct_result

SpecCtTable == InitCtTable /\ [][NextCtTable]_vars

\* C24: with a control point whose pixel position or real coordinate is not
\* set, a click starts no task and leaves the stored real coordinates as
\* they were; a task that runs has exactly the three rows of the table as
\* its control points.
IncompleteControlPointsRefused ==
    /\ (\E i \in 1 .. 3 : ~ct.rows[i].px_set \/ ~ct.rows[i].real_set) =>
           /\ ct.pc \in {"table", "refused"}
           /\ ~ct.stored.present
           /\ ct.run_ct_button
    /\ ct.pc \in {"started", "returned", "done"} =>
           /\ Len(ct.control_pixel) = 3
           /\ Len(ct.control_real) = 3
           /\ \A i \in 1 .. 3 :
                  /\ ct.rows[i].px_set
                  /\ ct.rows[i].real_set
                  /\ ct.control_pixel[i] = ct.rows[i].pixel
                  /\ ct.control_real[i] = ct.rows[i].real

\* a click with two complete rows and one row without a real coordinate was
\* refused although centers were there to transform
IncompleteControlPointsRefusedWitness ==
    /\ ct.pc = "refused"
    /\ ct.table_pixel_coords.present
    /\ ct.rows[1].px_set /\ ct.rows[1].real_set
    /\ ct.rows[2].px_set /\ ct.rows[2].real_set
    /\ ct.rows[3].px_set /\ ~ct.rows[3].real_set

(***************************************************************************)
(* PointOrdering: one application.                                         *)
(***************************************************************************)
NextOrdOnce == SortOnce

SpecOrdOnce == InitOrd /\ [][NextOrdOnce]_vars

\* how often point g occurs in the sequence
Occurrences(g, seq) == Cardinality({i \in DOMAIN seq : seq[i] = g})

\* C26: the output holds every point as often as the input does, and
\* nothing else.
OutputIsPermutation ==
    ord.pc = "once" =>
        /\ Len(ord.once) = Len(ord.points)
        /\ \A g \in GridPoints : Occurrences(g, ord.once) = Occurrences(g, ord.points)
        /\ \A i \in DOMAIN ord.once : ord.once[i] \in GridPoints

\* an input with a point twice and two rows, reordered
OutputIsPermutationWitness ==
    /\ ord.pc = "once"
    /\ \E i, j \in DOMAIN ord.points : i # j /\ ord.points[i] = ord.points[j]
    /\ Len(ord.row_clusters_indices) >= 2
    /\ ord.once # ord.points

(***************************************************************************)
(* The region size CenterExtractor uses.  The user draws rectangles of two *)
(* widths.                                                                 *)
(***************************************************************************)
InitUiRegion ==
    /\ ct = CtIdle
    /\ tm = TmIdle
    /\ wk = WkIdle
    /\ nms = NmsIdle
    /\ ce = CeIdle
    /\ ord = OrdIdle
    /\ trk = TrkIdle
    /\ ui = WindowAtStart({min_template_side, min_template_side + 1})

SpecUiRegion == InitUiRegion /\ [][NextUiShort]_vars

\* C27: every CenterExtractor run uses the template width of the
\* MarkerLocator run that produced its Marker list.
RegionSizeOfTheMarkersRun ==
    ui.pc = "loaded" =>
        \A i \in DOMAIN ui.workers :
            ui.workers[i].stage = "ce" => ui.workers[i].tm_w = ui.workers[i].points_w

(***************************************************************************)
(* The result store and the image list: loading and removing images while  *)
(* stage tasks run.  image_files is the set of loaded paths and            *)
(* processing_results the set of paths that have an entry in the store.    *)
(***************************************************************************)
MaxStoreWorkers == 2

InitStore ==
    /\ ct = CtIdle
    /\ tm = TmIdle
    /\ wk = WkIdle
    /\ nms = NmsIdle
    /\ ce = CeIdle
    /\ ord = OrdIdle
    /\ trk = TrkIdle
    /\ ui = [pc |-> "store",
             image_files |-> {},
             processing_results |-> {},
             current_image_path |-> NoImage,
             workers |-> <<>>]

\* lines 583-614: a path not yet loaded gets an empty entry and is selected
StoreLoadImages ==
    /\ ui.pc = "store"
    /\ UNCHANGED <<nms, ce, ord, trk, ct, tm, wk>>
    /\ \E file_path \in UiImages \ ui.image_files :
           ui' = [ui EXCEPT !.image_files = @ \cup {file_path},
                            !.processing_results = @ \cup {file_path},
                            !.current_image_path = file_path]

\* lines 617-653: the selected image gets an entry when it has none
StoreSelectImage ==
    /\ ui.pc = "store"
    /\ UNCHANGED <<nms, ce, ord, trk, ct, tm, wk>>
    /\ \E new_image_path \in ui.image_files :
           /\ new_image_path # ui.current_image_path
           /\ ui' = [ui EXCEPT !.current_image_path = new_image_path,
                               !.processing_results = @ \cup {new_image_path}]

\* lines 1642-1666: the path leaves the list and the store; when it was the
\* selected one, a remaining image is selected or none is
remove_image_item ==
    /\ ui.pc = "store"
    /\ UNCHANGED <<nms, ce, ord, trk, ct, tm, wk>>
    /\ \E image_path \in ui.image_files :
           LET remaining == ui.image_files \ {image_path}
               removed == [ui EXCEPT !.image_files = remaining,
                                     !.processing_results = @ \ {image_path}]
           IN  IF image_path # ui.current_image_path
                   THEN ui' = removed
                   ELSE \E selected \in remaining \cup {NoImage} :
                            ui' = [removed EXCEPT
                                      !.current_image_path = selected,
                                      !.processing_results =
                                          IF selected = NoImage THEN @ ELSE @ \cup {selected}]

\* lines 867-881, 1067-1080 and 1180-1190: a stage task is started with the
\* path of the selected image
StoreStartTask ==
    /\ ui.pc = "store"
    /\ ui.current_image_path # NoImage
    /\ Len(ui.workers) < MaxStoreWorkers
    /\ UNCHANGED <<nms, ce, ord, trk, ct, tm, wk>>
    /\ \E stage \in {"tm", "ce", "ct"} :
           ui' = [ui EXCEPT !.workers = Append(@, [stage |-> stage,
                                                   image_path |-> ui.current_image_path,
                                                   phase |-> "running"])]

\* lines 1400-1431, on the new_image_result signal a task emits before it
\* returns (lines 854, 1054, 1166): the pixmap is stored under the path the
\* task was started with
update_result_window ==
    /\ ui.pc = "store"
    /\ UNCHANGED <<nms, ce, ord, trk, ct, tm, wk>>
    /\ \E i \in DOMAIN ui.workers :
           /\ ui.workers[i].phase = "running"
           /\ ui' = [ui EXCEPT !.workers[i].phase = "shown",
                               !.processing_results = @ \cup {ui.workers[i].image_path}]

\* lines 883-903, 1083-1102 and 1300-1348, on the result signal: a result with
\* no "error" key is stored under the selected image; a failed task has
\* emitted no new_image_result
StoreHandleResult ==
    /\ ui.pc = "store"
    /\ UNCHANGED <<nms, ce, ord, trk, ct, tm, wk>>
    /\ \E i \in DOMAIN ui.workers :
           /\ ui.workers[i].phase \in {"running", "shown"}
           /\ ui' = [ui EXCEPT
                        !.workers[i].phase = "handled",
                        !.processing_results =
                            IF ui.workers[i].phase = "shown" /\ ui.current_image_path # NoImage
                                THEN @ \cup {ui.current_image_path}
                                ELSE @]

NextStore ==
    \/ StoreLoadImages
    \/ StoreSelectImage
    \/ remove_image_item
    \/ StoreStartTask
    \/ update_result_window
    \/ StoreHandleResult

SpecStore == InitStore /\ [][NextStore]_vars

\* C28: the result store holds an entry only for images that are loaded,
\* also when a task of a removed image completes after the removal.
StoreHoldsOnlyLoadedImages ==
    ui.pc = "store" => ui.processing_results \subseteq ui.image_files

(***************************************************************************)
(* Worker.run, lines 75-94: the function is called in the worker's thread; *)
(* then error or result is emitted, then finished.  emitted is the         *)
(* sequence of the result, error and finished signals of one Worker, in    *)
(* the order of their emission.  Workers of different threads interleave.  *)
(***************************************************************************)
MaxRuns == 2

\* the functions MainWindow hands to a Worker (lines 865, 1064, 1176, 1279, 1931)
WorkerFunctions ==
    {"tm_task", "ce_task", "ct_visualization_task", "ct_task", "plot_task"}

InitWk ==
    /\ ct = CtIdle
    /\ tm = TmIdle
    /\ nms = NmsIdle
    /\ ce = CeIdle
    /\ ord = OrdIdle
    /\ trk = TrkIdle
    /\ ui = UiIdle
    /\ wk = [pc |-> "threads", workers |-> <<>>]

\* thread.started -> worker.run, for a Worker made with one of the functions
WorkerStarted ==
    /\ wk.pc = "threads"
    /\ Len(wk.workers) < MaxRuns
    /\ UNCHANGED <<nms, ce, ord, trk, ui, ct, tm>>
    /\ \E function \in WorkerFunctions :
           wk' = [wk EXCEPT !.workers = Append(@, [function |-> function,
                                                   pc |-> "started",
                                                   emitted |-> <<>>])]

\* line 85: result = self.function(...).  The function returns or an
\* exception leaves it; plot_task ends both its branches with
\* signals.result.emit (lines 1922 and 1928) and returns None
WorkerCallsFunction ==
    /\ wk.pc = "threads"
    /\ UNCHANGED <<nms, ce, ord, trk, ui, ct, tm>>
    /\ \E i \in DOMAIN wk.workers, raised \in BOOLEAN :
           /\ wk.workers[i].pc = "started"
           /\ wk' = [wk EXCEPT
                        !.workers[i].pc = IF raised THEN "raised" ELSE "returned",
                        !.workers[i].emitted =
                            IF wk.workers[i].function = "plot_task" /\ ~raised
                                THEN Append(@, "result")
                                ELSE @]

\* lines 86-92: except emits error, else emits result
WorkerEmitsOutcome ==
    /\ wk.pc = "threads"
    /\ UNCHANGED <<nms, ce, ord, trk, ui, ct, tm>>
    /\ \E i \in DOMAIN wk.workers :
           /\ wk.workers[i].pc \in {"raised", "returned"}
           /\ wk' = [wk EXCEPT
                        !.workers[i].pc = "outcome",
                        !.workers[i].emitted =
                            Append(@, IF wk.workers[i].pc = "raised" THEN "error" ELSE "result")]

\* lines 93-94: finally emits finished
WorkerEmitsFinished ==
    /\ wk.pc = "threads"
    /\ UNCHANGED <<nms, ce, ord, trk, ui, ct, tm>>
    /\ \E i \in DOMAIN wk.workers :
           /\ wk.workers[i].pc = "outcome"
           /\ wk' = [wk EXCEPT !.workers[i].pc = "finished",
                               !.workers[i].emitted = Append(@, "finished")]

NextWk ==
    \/ WorkerStarted
    \/ WorkerCallsFunction
    \/ WorkerEmitsOutcome
    \/ WorkerEmitsFinished

SpecWk == InitWk /\ [][NextWk]_vars

\* C29: a Worker emits exactly one of result and error, then exactly one
\* finished, and nothing else: at every moment what it has emitted is the
\* beginning of <<result, finished>> or of <<error, finished>>, and the whole
\* of one of them once its run is over.
OneOutcomeThenFinished ==
    wk.pc = "threads" =>
        \A i \in DOMAIN wk.workers :
            LET emitted == wk.workers[i].emitted
            IN  /\ \E whole \in {<<"result", "finished">>, <<"error", "finished">>} :
                       /\ Len(emitted) <= Len(whole)
                       /\ emitted = SubSeq(whole, 1, Len(emitted))
                /\ wk.workers[i].pc = "finished" => Len(emitted) = 2

(***************************************************************************)
(* Completion of stage runs.  A task function that returns makes           *)
(* Worker.run emit result and finished; the event loop of the main thread  *)
(* delivers every queued signal, so a result or finished slot that stays   *)
(* enabled is run: weak fairness of the four slots.  Clicks, selections    *)
(* and image loads are up to the user and have no fairness.  Every task    *)
(* function sleeps 0.1 s before it works (lines 823, 960, 1254), and       *)
(* the handler that started it has connected its finished slots by then.   *)
(* A run is started only when the workers it may lead to fit in            *)
(* MaxLiveWorkers: a MarkerLocator run in flight may chain one extraction. *)
(***************************************************************************)
LiveRoom(n) ==
    Len(ui.workers) + n
        + Cardinality({i \in DOMAIN ui.workers :
                           ui.workers[i].stage = "tm" /\ InFlight(ui.workers[i])})
        <= MaxLiveWorkers

NextUiLive ==
    \/ load_images
    \/ on_image_selection_changed
    \/ handle_region_selected
    \/ run_template_matching /\ LiveRoom(2)
    \/ handle_tm_result
    \/ tm_finished
    \/ run_ce_clicked /\ LiveRoom(1)
    \/ handle_ce_result
    \/ ce_finished

SpecUiLive ==
    /\ InitUi
    /\ [][NextUiLive]_vars
    /\ WF_vars(handle_tm_result)
    /\ WF_vars(tm_finished)
    /\ WF_vars(handle_ce_result)
    /\ WF_vars(ce_finished)

\* C30: every started stage run completes, and a disabled trigger of a stage
\* becomes enabled again, whether the runs succeed or fail.
StageRunsCompleteAndReenable ==
    /\ \A i \in 1 .. MaxLiveWorkers :
           (i \in DOMAIN ui.workers) ~>
               (i \in DOMAIN ui.workers /\ ui.workers[i].phase = "finished")
    /\ (~ui.run_tm_button) ~> ui.run_tm_button
    /\ (~ui.run_ce_button) ~> ui.run_ce_button

\* a MarkerLocator run has finished and an extraction run that failed has
\* finished after it, and both triggers are enabled again
StageRunsCompleteAndReenableWitness ==
    /\ ui.run_tm_button
    /\ ui.run_ce_button
    /\ \E i, j \in DOMAIN ui.workers :
           /\ i < j
           /\ ui.workers[i].stage = "tm"
           /\ ui.workers[j].stage = "ce"
           /\ ui.workers[i].phase = "finished"
           /\ ui.workers[j].phase = "finished"
           /\ ui.workers[j].outcome.error

====
